---- MODULE Spec2Model ----
(***************************************************************************)
(* Model of upatcher.py: the APK patch pipeline (main) and the tree and    *)
(* manifest mutations it sequences: merge_apks, create_provider_paths,     *)
(* add_provider_to_manifest, modify_files, recompile_and_sign and          *)
(* finalize_apk.  External tools (wget, apktool, uber-apk-signer) are      *)
(* opaque processes: an exit status plus the files they leave behind,      *)
(* chosen nondeterministically.                                            *)
(***************************************************************************)
EXTENDS Integers, Sequences, FiniteSets, TLC

\* ------------------------------------------------------------------------
\* Bounds
\* ------------------------------------------------------------------------

\* largest number of children of <application> in an input manifest
MaxKids == 1

\* ------------------------------------------------------------------------
\* File contents
\* ------------------------------------------------------------------------

\* a path at which no file exists (os.path.exists is False)
Absent == "absent"

\* a strict prefix, possibly empty, of the content a writer meant to write
Truncated == "truncated"

\* content of the libraries of the decompiled base package
OrigContent == "A"

\* content of the libraries of the decompiled split package
SplitContent == "S"

\* content served at libmain_url
ReplContent == "B"

\* the fixed body create_provider_paths writes
ProviderPathsContent == "paths-xml"

\* ------------------------------------------------------------------------
\* AndroidManifest.xml: the file, xml.etree's tree, parse and write
\* ------------------------------------------------------------------------
\* An attribute is [form, local, value].  In a file the form is "prefix"
\* (written android:local) or "plain" (written local).  In an ElementTree
\* tree the key is "ns" ({http://schemas.android.com/apk/res/android}local),
\* "prefix" (the literal key string 'android:local') or "plain".
\* An element is [tag, attrs, kids].  A manifest file is
\* [decl, xmlns, rootAttrs, hasApp, kids]: its XML declaration, whether the
\* root binds xmlns:android, the root's attributes, whether the root has an
\* <application> child, and that element's children.

ProviderName == "androidx.core.content.FileProvider"

Attr(f, l, v) == [form |-> f, local |-> l, value |-> v]

Elem(t, a, k) == [tag |-> t, attrs |-> a, kids |-> k]

\* the provider element and its meta-data child, as the code builds them
MetaDataElem ==
    Elem("meta-data",
         << Attr("prefix", "name", "android.support.FILE_PROVIDER_PATHS"),
            Attr("prefix", "resource", "@xml/provider_paths") >>,
         << >>)

ProviderElem ==
    Elem("provider",
         << Attr("prefix", "name", ProviderName),
            Attr("prefix", "authorities", "${applicationId}.provider"),
            Attr("prefix", "exported", "false"),
            Attr("prefix", "grantUriPermissions", "true") >>,
         << MetaDataElem >>)

\* Element.get(key): the value stored under exactly that key, else None
GetAttr(e, f, l) ==
    IF \E i \in DOMAIN e.attrs : e.attrs[i].form = f /\ e.attrs[i].local = l
    THEN LET i == CHOOSE j \in DOMAIN e.attrs :
                      e.attrs[j].form = f /\ e.attrs[j].local = l
         IN  e.attrs[i].value
    ELSE "None"

AttrsUse(attrs, f) == \E i \in DOMAIN attrs : attrs[i].form = f

ElemUses(e, f) ==
    \/ AttrsUse(e.attrs, f)
    \/ \E i \in DOMAIN e.kids : AttrsUse(e.kids[i].attrs, f)

\* some attribute of the document has a key of form f
DocUses(d, f) ==
    \/ AttrsUse(d.rootAttrs, f)
    \/ \E i \in DOMAIN d.kids : ElemUses(d.kids[i], f)

\* expat accepts the file: every android: prefix is bound
WellFormed(file) == DocUses(file, "prefix") => file.xmlns

\* the parser resolves a bound prefix to the namespace-qualified key
ParseAttrs(attrs) ==
    [i \in DOMAIN attrs |->
        IF attrs[i].form = "prefix" THEN [attrs[i] EXCEPT !.form = "ns"]
                                    ELSE attrs[i]]

ParseElem(e) ==
    Elem(e.tag, ParseAttrs(e.attrs),
         [i \in DOMAIN e.kids |->
             Elem(e.kids[i].tag, ParseAttrs(e.kids[i].attrs), << >>)])

\* ET.parse(manifest_path).getroot() of a well-formed file
Parse(file) ==
    [rootAttrs |-> ParseAttrs(file.rootAttrs),
     hasApp    |-> file.hasApp,
     kids      |-> [i \in DOMAIN file.kids |-> ParseElem(file.kids[i])]]

\* the serializer writes a qualified key with its registered prefix and any
\* other key verbatim
WriteAttrs(attrs) ==
    [i \in DOMAIN attrs |->
        IF attrs[i].form = "ns" THEN [attrs[i] EXCEPT !.form = "prefix"]
                                ELSE attrs[i]]

WriteElem(e) ==
    Elem(e.tag, WriteAttrs(e.attrs),
         [i \in DOMAIN e.kids |->
             Elem(e.kids[i].tag, WriteAttrs(e.kids[i].attrs), << >>)])

\* tree.write(manifest_path, encoding='utf-8', xml_declaration=True):
\* xmlns:android is emitted only when some qualified key occurs in the tree
TreeWrite(tree) ==
    [decl      |-> "etree",
     xmlns     |-> DocUses(tree, "ns"),
     rootAttrs |-> WriteAttrs(tree.rootAttrs),
     hasApp    |-> tree.hasApp,
     kids      |-> [i \in DOMAIN tree.kids |-> WriteElem(tree.kids[i])]]

\* the scan of lines 175-179
ProviderFound(tree) ==
    \E i \in DOMAIN tree.kids :
        /\ tree.kids[i].tag = "provider"
        /\ GetAttr(tree.kids[i], "ns", "name") = ProviderName

\* no file at base/AndroidManifest.xml
NoManifest ==
    [decl |-> Absent, xmlns |-> FALSE, rootAttrs |-> << >>,
     hasApp |-> FALSE, kids |-> << >>]

NoDoc == [rootAttrs |-> << >>, hasApp |-> FALSE, kids |-> << >>]

\* add_provider_to_manifest returning quietly when <application> is missing
AddProviderLenient(file) ==
    IF file = NoManifest
    THEN [file |-> file, result |-> "FileNotFoundError", doc |-> NoDoc,
          written |-> FALSE]
    ELSE IF ~WellFormed(file)
    THEN [file |-> file, result |-> "ParseError", doc |-> NoDoc,
          written |-> FALSE]
    ELSE LET tree == Parse(file) IN
         IF ~tree.hasApp \/ ProviderFound(tree)
         THEN [file |-> file, result |-> "ok", doc |-> tree,
               written |-> FALSE]
         ELSE LET patched == [tree EXCEPT !.kids = Append(@, ProviderElem)]
              IN  [file |-> TreeWrite(patched), result |-> "ok",
                   doc |-> patched, written |-> TRUE]

\* add_provider_to_manifest serializing the tree back even when the provider
\* was found
AddProviderAlwaysWrites(file) ==
    IF file = NoManifest
    THEN [file |-> file, result |-> "FileNotFoundError", doc |-> NoDoc,
          written |-> FALSE]
    ELSE IF ~WellFormed(file)
    THEN [file |-> file, result |-> "ParseError", doc |-> NoDoc,
          written |-> FALSE]
    ELSE LET tree == Parse(file) IN
         IF ~tree.hasApp
         THEN [file |-> file, result |-> "RuntimeError", doc |-> tree,
               written |-> FALSE]
         ELSE IF ProviderFound(tree)
         THEN [file |-> TreeWrite(tree), result |-> "ok", doc |-> tree,
               written |-> TRUE]
         ELSE LET patched == [tree EXCEPT !.kids = Append(@, ProviderElem)]
              IN  [file |-> TreeWrite(patched), result |-> "ok",
                   doc |-> patched, written |-> TRUE]

\* add_provider_to_manifest on the manifest file: the file afterwards, the
\* outcome, the tree held at return and whether the file was written
AddProvider(file) ==
    IF file = NoManifest
    THEN [file |-> file, result |-> "FileNotFoundError", doc |-> NoDoc,
          written |-> FALSE]
    ELSE IF ~WellFormed(file)
    THEN [file |-> file, result |-> "ParseError", doc |-> NoDoc,
          written |-> FALSE]
    ELSE LET tree == Parse(file) IN
         IF ~tree.hasApp
         THEN [file |-> file, result |-> "RuntimeError", doc |-> tree,
               written |-> FALSE]
         ELSE IF ProviderFound(tree)
         THEN [file |-> file, result |-> "ok", doc |-> tree,
               written |-> FALSE]
         ELSE LET patched == [tree EXCEPT !.kids = Append(@, ProviderElem)]
              IN  [file |-> TreeWrite(patched), result |-> "ok",
                   doc |-> patched, written |-> TRUE]

\* ------------------------------------------------------------------------
\* Input manifests (what apktool d leaves at base/AndroidManifest.xml)
\* ------------------------------------------------------------------------

ActivityElem == Elem("activity", << Attr("prefix", "name", "Main") >>, << >>)

OtherProviderElem ==
    Elem("provider", << Attr("prefix", "name", "com.example.Other") >>, << >>)

ExistingProviderElem ==
    Elem("provider", << Attr("prefix", "name", ProviderName) >>, << >>)

KidChoices == {ActivityElem, OtherProviderElem, ExistingProviderElem}

KidSeqs == UNION {[1..n -> KidChoices] : n \in 0..MaxKids}

\* number of <provider> children that declare ProviderName, in either key form
CountFileProviders(kids) ==
    Cardinality({i \in DOMAIN kids :
        /\ kids[i].tag = "provider"
        /\ \/ GetAttr(kids[i], "ns", "name") = ProviderName
           \/ GetAttr(kids[i], "prefix", "name") = ProviderName})

MinimalManifest ==
    [decl |-> "none", xmlns |-> FALSE, rootAttrs |-> << >>,
     hasApp |-> TRUE, kids |-> << >>]

InputManifests ==
    {m \in [decl : {"none", "apktool"}, xmlns : BOOLEAN,
            rootAttrs : {<< >>, << Attr("prefix", "versionCode", "1") >>},
            hasApp : BOOLEAN, kids : KidSeqs] :
        /\ WellFormed(m)
        /\ ~m.hasApp => m.kids = << >>
        /\ CountFileProviders(m.kids) <= 1}

\* ------------------------------------------------------------------------
\* Library trees: <folder>/lib with its arm64-v8a directory
\* ------------------------------------------------------------------------
\* A tree is [exists, arch, files]: whether <folder>/lib exists, whether
\* <folder>/lib/arm64-v8a exists, and the content of each file under it.

LibFiles == {"libmain.so", "libmain_orig.so", "x.so"}

LibTree(e, a, f) == [exists |-> e, arch |-> a, files |-> f]

NoFiles == [p \in LibFiles |-> Absent]

NoLib == LibTree(FALSE, FALSE, NoFiles)

Present(tree) == {p \in LibFiles : tree.files[p] # Absent}

TreeOk(tree) ==
    /\ Present(tree) # {} => tree.arch
    /\ tree.arch => tree.exists

InputBaseLibs ==
    {t \in [exists : BOOLEAN, arch : BOOLEAN,
            files : [LibFiles -> {Absent, OrigContent}]] : TreeOk(t)}

InputSplitLibs ==
    {t \in [exists : BOOLEAN, arch : BOOLEAN,
            files : [LibFiles -> {Absent, SplitContent}]] :
        TreeOk(t) /\ t.files["libmain_orig.so"] = Absent}

\* a merge that keeps the destination's file where one exists
CopyTreeKeepExisting(src, dst, failed, untouched) ==
    LibTree(TRUE, dst.arch \/ src.arch,
            [p \in LibFiles |->
                IF src.files[p] = Absent \/ p \in untouched
                    \/ dst.files[p] # Absent
                THEN dst.files[p]
                ELSE IF p \in failed THEN Truncated ELSE src.files[p]])

\* shutil.copytree(src, dst, dirs_exist_ok=True): directories are created,
\* every source file is copied over the destination's; the copies in
\* failed raise, those in untouched before the destination was opened
CopyTree(src, dst, failed, untouched) ==
    LibTree(TRUE, dst.arch \/ src.arch,
            [p \in LibFiles |->
                IF src.files[p] = Absent \/ p \in untouched
                THEN dst.files[p]
                ELSE IF p \in failed THEN Truncated ELSE src.files[p]])

CopyFailures(src) ==
    {fk \in (SUBSET Present(src)) \X (SUBSET Present(src)) : fk[2] \subseteq fk[1]}

\* merge_apks without the os.path.exists guard: copytree raises on a
\* source that does not exist
MergeOutcomesUnguarded(base, split) ==
    IF split.exists
    THEN {[base   |-> CopyTree(split, base, fk[1], fk[2]),
           result |-> IF fk[1] = {} THEN "ok" ELSE "Error"] :
             fk \in CopyFailures(split)}
    ELSE {[base |-> base, result |-> "FileNotFoundError"]}

\* merge_apks(base_folder, split_folder): every outcome [base, result]
MergeOutcomes(base, split) ==
    IF split.exists
    THEN {[base   |-> CopyTree(split, base, fk[1], fk[2]),
           result |-> IF fk[1] = {} THEN "ok" ELSE "Error"] :
             fk \in CopyFailures(split)}
    ELSE {[base |-> base, result |-> "ok"]}

\* wget -q url -O path, the file at path holding old before: exit status and
\* what the file holds afterwards.  wget opens (truncates) the output file
\* before it transfers anything.
WgetOutcomes(dirExists, old, content) ==
    IF dirExists
    THEN {[result |-> "ok", content |-> content],
          [result |-> "RuntimeError", content |-> Truncated],
          [result |-> "RuntimeError", content |-> old]}
    ELSE {[result |-> "RuntimeError", content |-> old]}

\* modify_files without its backup step
BackupRenameSkipped(base) == base

\* lines 93-95: the backup rename (os.rename replaces an existing target)
BackupRename(base) ==
    IF base.files["libmain.so"] # Absent
    THEN [base EXCEPT !.files["libmain_orig.so"] = base.files["libmain.so"],
                      !.files["libmain.so"] = Absent]
    ELSE base

\* modify_files(libmain_url, base_decompile_folder): every outcome
ModifyOutcomes(base) ==
    LET renamed == BackupRename(base) IN
    {[base   |-> [renamed EXCEPT !.files["libmain.so"] = w.content],
      result |-> w.result] :
        w \in WgetOutcomes(renamed.arch, renamed.files["libmain.so"],
                           ReplContent)}

\* ------------------------------------------------------------------------
\* State
\* ------------------------------------------------------------------------

VARIABLES
    pc,            \* the stage main is about to run, or Done / Failed
    log,           \* the stages attempted so far, each with its outcome
    exitStatus,    \* the process's exit status, Running until it exits
    keystore,      \* debug.keystore
    manifest,      \* base/AndroidManifest.xml
    doc,           \* the tree add_provider_to_manifest held when it returned
    providerPaths, \* base/res/xml/provider_paths.xml
    baseLib,       \* base/lib
    splitLib,      \* split/lib
    unsignedApk,   \* ./umamusume_patched.apk
    signedApk,     \* ./umamusume_patched-aligned-signed.apk
    finalApk,      \* ./umamusume.apk
    signerRuns,    \* how many times uber-apk-signer was executed
    last,          \* the operation that ran last, with its outcome
    pre            \* the files and the last operation as that operation found them

vars == << pc, log, exitStatus, keystore, manifest, doc, providerPaths,
           baseLib, splitLib, unsignedApk, signedApk, finalApk, signerRuns,
           last, pre >>

treeVars == << manifest, doc, providerPaths, baseLib, splitLib >>

apkVars == << unsignedApk, signedApk, finalApk, signerRuns >>

\* a main that patches the manifest before it writes the resource file
StageOrderPatchFirst ==
    << "Fetching", "Decompiling", "Merging", "PatchingManifest",
       "CreatingProviderPaths", "Substituting", "Recompiling", "Signing",
       "Finalizing" >>

\* the order in which main runs the stages (lines 212-224)
StageOrder ==
    << "Fetching", "Decompiling", "Merging", "CreatingProviderPaths",
       "PatchingManifest", "Substituting", "Recompiling", "Signing",
       "Finalizing" >>

StageIndex(s) == CHOOSE i \in DOMAIN StageOrder : StageOrder[i] = s

\* the statement after stage s returns normally
NextPc(s) ==
    IF StageIndex(s) = Len(StageOrder) THEN "Done"
    ELSE StageOrder[StageIndex(s) + 1]

\* a main that swallows the exception and carries on
GotoSwallow(s, r) == NextPc(s)

\* where control goes when stage s ends with result r: on to the next
\* statement of the try block, or to the except clause (lines 227-229)
Goto(s, r) == IF r = "ok" THEN NextPc(s) ELSE "Failed"

\* the exit status of a process that has not exited
Running == -1

\* exit(1) in the except clause; falling off main exits with status 0
ExitAt(p) ==
    IF p = "Failed" THEN 1 ELSE IF p = "Done" THEN 0 ELSE Running

\* the files as an operation finds them, and the operation before it
Snapshot ==
    [manifest |-> manifest, providerPaths |-> providerPaths,
     baseLib |-> baseLib, splitLib |-> splitLib,
     signedApk |-> signedApk, finalApk |-> finalApk, last |-> last]

\* control after operation s ended with result r.  Inside main (lines
\* 211-229) the next statement of the try block or the except clause runs;
\* a function called on its own (pc = "Called") returns to its caller.
Advance(s, r) ==
    /\ pc \in {"Called", s}
    /\ last' = [op |-> s, result |-> r]
    /\ pre' = Snapshot
    /\ IF pc = "Called"
       THEN UNCHANGED << pc, log, exitStatus >>
       ELSE /\ pc' = Goto(s, r)
            /\ log' = Append(log, [stage |-> s, result |-> r])
            /\ exitStatus' = ExitAt(Goto(s, r))

\* the files an earlier run may have left in the working directory
StaleApks == {Absent, "stale"}

Init ==
    /\ pc = "Fetching"
    /\ log = << >>
    /\ exitStatus = Running
    /\ keystore = Absent
    /\ manifest = NoManifest
    /\ doc = NoDoc
    /\ providerPaths = Absent
    /\ baseLib = NoLib
    /\ splitLib = NoLib
    /\ unsignedApk = Absent
    /\ signedApk \in StaleApks
    /\ finalApk \in StaleApks
    /\ signerRuns = 0
    /\ last = [op |-> "none", result |-> "ok"]
    /\ pre = Snapshot

\* ------------------------------------------------------------------------
\* The stages of main
\* ------------------------------------------------------------------------

\* setup_environment, then the two downloads of download_and_decompile
\* (lines 53-54); a failure may come before or after the keystore download
Fetching ==
    \E r \in {"ok", "RuntimeError"} :
    \E k \in {Absent, Truncated, "keystore"} :
        /\ r = "ok" => k = "keystore"
        /\ Advance("Fetching", r)
        /\ keystore' = k
        /\ UNCHANGED << treeVars, apkVars >>

\* apktool d base.apk; apktool d split.apk (lines 56-57)
Decompiling ==
    \/ \E m \in InputManifests, b \in InputBaseLibs, s \in InputSplitLibs :
        /\ Advance("Decompiling", "ok")
        /\ manifest' = m
        /\ baseLib' = b
        /\ splitLib' = s
        /\ UNCHANGED << keystore, doc, providerPaths, apkVars >>
    \/ /\ Advance("Decompiling", "RuntimeError")
       /\ UNCHANGED << keystore, treeVars, apkVars >>

\* merge_apks(base_decompile_dir, split_decompile_dir)
Merging ==
    \E o \in MergeOutcomes(baseLib, splitLib) :
        /\ Advance("Merging", o.result)
        /\ baseLib' = o.base
        /\ UNCHANGED << keystore, manifest, doc, providerPaths, splitLib,
                        apkVars >>

\* create_provider_paths(base_decompile_dir)
CreatingProviderPaths ==
    /\ Advance("CreatingProviderPaths", "ok")
    /\ providerPaths' = ProviderPathsContent
    /\ UNCHANGED << keystore, manifest, doc, baseLib, splitLib, apkVars >>

\* add_provider_to_manifest(base_decompile_dir)
PatchingManifest ==
    LET o == AddProvider(manifest) IN
        /\ Advance("PatchingManifest", o.result)
        /\ manifest' = o.file
        /\ doc' = o.doc
        /\ UNCHANGED << keystore, providerPaths, baseLib, splitLib, apkVars >>

\* modify_files(args.libmain_url, base_decompile_dir)
Substituting ==
    \E o \in ModifyOutcomes(baseLib) :
        /\ Advance("Substituting", o.result)
        /\ baseLib' = o.base
        /\ UNCHANGED << keystore, manifest, doc, providerPaths, splitLib,
                        apkVars >>

\* a recompile step that removes the decompiled folders when apktool fails
RecompilingCleanup ==
    \E r \in {"ok", "RuntimeError"} :
        /\ Advance("Recompiling", r)
        /\ unsignedApk' = IF r = "ok" THEN "built" ELSE unsignedApk
        /\ IF r = "ok"
           THEN UNCHANGED treeVars
           ELSE /\ manifest' = NoManifest
                /\ providerPaths' = Absent
                /\ baseLib' = NoLib
                /\ splitLib' = NoLib
                /\ UNCHANGED doc
        /\ UNCHANGED << keystore, signedApk, finalApk, signerRuns >>

\* apktool b base -o ./umamusume_patched.apk (line 107)
Recompiling ==
    \E r \in {"ok", "RuntimeError"} :
        /\ Advance("Recompiling", r)
        /\ unsignedApk' = IF r = "ok" THEN "built" ELSE unsignedApk
        /\ UNCHANGED << keystore, treeVars, signedApk, finalApk, signerRuns >>

\* recompile_and_sign without the check of lines 109-110: the signer is run
\* whatever the keystore path holds
SigningUnchecked ==
    \E r \in {"ok", "RuntimeError"} :
    \E out \in {signedApk, "signed"} :
        /\ r # "ok" => out = signedApk
        /\ keystore = Absent => r # "ok"
        /\ Advance("Signing", r)
        /\ signerRuns' = signerRuns + 1
        /\ signedApk' = out
        /\ UNCHANGED << keystore, treeVars, unsignedApk, finalApk >>

\* the keystore check and the signer (lines 109-123); a signer that exits
\* with status 0 may have written its output under another name
Signing ==
    IF keystore = Absent
    THEN /\ Advance("Signing", "FileNotFoundError")
         /\ UNCHANGED << keystore, treeVars, apkVars >>
    ELSE \E r \in {"ok", "RuntimeError"} :
         \E out \in {signedApk, "signed"} :
            /\ r # "ok" => out = signedApk
            /\ Advance("Signing", r)
            /\ signerRuns' = signerRuns + 1
            /\ signedApk' = out
            /\ UNCHANGED << keystore, treeVars, unsignedApk, finalApk >>

\* finalize_apk without its existence check, the rename error ignored
FinalizeApkUnchecked(signed, final) ==
    [signed |-> Absent, final |-> IF signed = Absent THEN final ELSE signed,
     result |-> "ok"]

\* finalize_apk(directory, final_apk_name): the outcome on the two files
FinalizeApk(signed, final) ==
    IF signed = Absent
    THEN [signed |-> signed, final |-> final, result |-> "FileNotFoundError"]
    ELSE [signed |-> Absent, final |-> signed, result |-> "ok"]

\* finalize_apk(".", final_apk_name)
Finalizing ==
    LET o == FinalizeApk(signedApk, finalApk) IN
        /\ Advance("Finalizing", o.result)
        /\ signedApk' = o.signed
        /\ finalApk' = o.final
        /\ UNCHANGED << keystore, treeVars, unsignedApk, signerRuns >>

Next ==
    \/ Fetching
    \/ Decompiling
    \/ Merging
    \/ CreatingProviderPaths
    \/ PatchingManifest
    \/ Substituting
    \/ Recompiling
    \/ Signing
    \/ Finalizing

\* one run of main
Spec == Init /\ [][Next]_vars

\* ------------------------------------------------------------------------
\* The functions called on their own, any number of times, on one tree
\* ------------------------------------------------------------------------

CalledInit(m, pp, b, s) ==
    /\ pc = "Called"
    /\ log = << >>
    /\ exitStatus = Running
    /\ keystore = Absent
    /\ manifest = m
    /\ doc = NoDoc
    /\ providerPaths = pp
    /\ baseLib = b
    /\ splitLib = s
    /\ unsignedApk = Absent
    /\ signedApk = Absent
    /\ finalApk = Absent
    /\ signerRuns = 0
    /\ last = [op |-> "none", result |-> "ok"]
    /\ pre = Snapshot

ManifestInit ==
    \E m \in InputManifests, pp \in {Absent, ProviderPathsContent} :
        CalledInit(m, pp, NoLib, NoLib)

ManifestNext ==
    \/ CreatingProviderPaths
    \/ PatchingManifest

\* create_provider_paths and add_provider_to_manifest on one base folder
ManifestSpec == ManifestInit /\ [][ManifestNext]_vars

LibInit ==
    \E b \in InputBaseLibs, s \in InputSplitLibs :
        CalledInit(MinimalManifest, Absent, b, s)

LibNext ==
    \/ Merging
    \/ Substituting

\* merge_apks and modify_files on one pair of folders
LibSpec == LibInit /\ [][LibNext]_vars

\* recompile_and_sign(base, ".", keystore_path) entered with whatever the
\* keystore path holds, followed by finalize_apk as in main
SignInit ==
    \E m \in InputManifests, k \in {Absent, Truncated, "keystore"},
       sa \in StaleApks, fa \in StaleApks :
        /\ pc = "Recompiling"
        /\ log = << >>
        /\ exitStatus = Running
        /\ keystore = k
        /\ manifest = m
        /\ doc = NoDoc
        /\ providerPaths = ProviderPathsContent
        /\ baseLib = NoLib
        /\ splitLib = NoLib
        /\ unsignedApk = Absent
        /\ signedApk = sa
        /\ finalApk = fa
        /\ signerRuns = 0
        /\ last = [op |-> "none", result |-> "ok"]
        /\ pre = Snapshot

SignNext ==
    \/ Recompiling
    \/ Signing
    \/ Finalizing

SignSpec == SignInit /\ [][SignNext]_vars

\* ------------------------------------------------------------------------
\* Properties
\* ------------------------------------------------------------------------

Ran(op) == last.op = op

RanOk(op) == last.op = op /\ last.result = "ok"

\* C1: for every manifest with an <application> element,
\* add_provider_to_manifest succeeds, a second run right after a successful
\* one succeeds too and leaves the manifest file byte-identical, and the
\* file never holds more than one FileProvider <provider>.
C1_PatchIdempotent ==
    /\ (Ran("PatchingManifest") /\ pre.manifest \in InputManifests
            /\ pre.manifest.hasApp)
        => last.result = "ok"
    /\ (Ran("PatchingManifest") /\ pre.last.op = "PatchingManifest"
            /\ pre.last.result = "ok")
        => (last.result = "ok" /\ manifest = pre.manifest)
    /\ CountFileProviders(manifest.kids) <= 1

\* C2: a modify_files run never changes a libmain_orig.so that holds the
\* original content A.
C2_BackupPreserved ==
    (Ran("Substituting") /\ pre.baseLib.files["libmain_orig.so"] = OrigContent)
        => baseLib.files["libmain_orig.so"] = OrigContent

\* C3: after a successful modify_files on a tree without a backup,
\* libmain.so holds the replacement B, and libmain_orig.so holds the previous
\* content of libmain.so if that file existed and is absent if it did not.
C3_SubstitutePreservesOriginal ==
    (RanOk("Substituting") /\ pre.baseLib.files["libmain_orig.so"] = Absent)
        => /\ baseLib.files["libmain.so"] = ReplContent
           /\ baseLib.files["libmain_orig.so"] = pre.baseLib.files["libmain.so"]

\* a successful substitution moved the original A aside and installed B
C3_Witness ==
    /\ RanOk("Substituting")
    /\ pre.baseLib.files["libmain_orig.so"] = Absent
    /\ pre.baseLib.files["libmain.so"] = OrigContent
    /\ baseLib.files["libmain_orig.so"] = OrigContent
    /\ baseLib.files["libmain.so"] = ReplContent

\* C4: after a modify_files run whose download failed, libmain.so is absent
\* or holds what it held before the run.
C4_FailedDownloadLeavesNoPartial ==
    (Ran("Substituting") /\ last.result # "ok")
        => baseLib.files["libmain.so"] \in
               {Absent, pre.baseLib.files["libmain.so"]}

\* the stages as the pipeline's state machine names them;
\* create_provider_paths is the first step of PatchingManifest
ClaimStageOrder ==
    << "Fetching", "Decompiling", "Merging", "PatchingManifest",
       "Substituting", "Recompiling", "Signing", "Finalizing" >>

StageOf(s) == IF s = "CreatingProviderPaths" THEN "PatchingManifest" ELSE s

ClaimIndex(s) ==
    CHOOSE i \in DOMAIN ClaimStageOrder : ClaimStageOrder[i] = StageOf(s)

Started(s) == \E i \in DOMAIN log : StageOf(log[i].stage) = s

\* C5: the stages run in the order Fetching .. Finalizing, each step at most
\* once and only after every earlier stage succeeded; a failure ends the
\* run in Failed with exit status 1 and nothing started after it; Done, with
\* exit status 0, is reached only after Finalizing succeeded.
C5_StrictlySequential ==
    /\ \A i, j \in DOMAIN log :
          i < j => /\ ClaimIndex(log[i].stage) <= ClaimIndex(log[j].stage)
                   /\ log[i].stage # log[j].stage
                   /\ log[i].result = "ok"
    /\ \A j \in DOMAIN log :
          \A k \in 1..(ClaimIndex(log[j].stage) - 1) :
             \E i \in 1..(j - 1) :
                ClaimIndex(log[i].stage) = k /\ log[i].result = "ok"
    /\ pc = "Failed" <=> (log # << >> /\ log[Len(log)].result # "ok")
    /\ pc = "Failed" <=> exitStatus = 1
    /\ pc = "Done" <=> exitStatus = 0
    /\ pc = "Done" =>
          log[Len(log)] = [stage |-> "Finalizing", result |-> "ok"]
    /\ pc \notin {"Done", "Failed"} =>
          /\ pc \in {StageOrder[i] : i \in DOMAIN StageOrder}
          /\ \A i \in DOMAIN log : ClaimIndex(log[i].stage) <= ClaimIndex(pc)

\* a run that failed in Substituting, after five successful steps
C5_Witness ==
    /\ pc = "Failed"
    /\ exitStatus = 1
    /\ Len(log) = 6
    /\ log[6].stage = "Substituting"

\* C6: from the minimal manifest, add_provider_to_manifest leaves exactly one
\* <provider> under <application>, as its last child, whose
\* namespace-qualified name attribute is the FileProvider name (in the tree
\* it returned with, or in the file it wrote), with exported="false",
\* grantUriPermissions="true" and one <meta-data> child that references
\* @xml/provider_paths.
AttrIs(e, l, v) == GetAttr(e, "ns", l) = v \/ GetAttr(e, "prefix", l) = v

QualifiedNameIs(d, file, v) ==
    \/ GetAttr(d.kids[Len(d.kids)], "ns", "name") = v
    \/ /\ WellFormed(file)
       /\ GetAttr(Parse(file).kids[Len(file.kids)], "ns", "name") = v

C6_MinimalManifestPatched ==
    (Ran("PatchingManifest") /\ pre.manifest = MinimalManifest)
        => /\ last.result = "ok"
           /\ Cardinality({i \in DOMAIN doc.kids :
                              doc.kids[i].tag = "provider"}) = 1
           /\ LET p == doc.kids[Len(doc.kids)] IN
                /\ p.tag = "provider"
                /\ QualifiedNameIs(doc, manifest, ProviderName)
                /\ AttrIs(p, "exported", "false")
                /\ AttrIs(p, "grantUriPermissions", "true")
                /\ Len(p.kids) = 1
                /\ p.kids[1].tag = "meta-data"
                /\ AttrIs(p.kids[1], "resource", "@xml/provider_paths")

LaterStages == {"Substituting", "Recompiling", "Signing", "Finalizing"}

\* C7: add_provider_to_manifest on a manifest without <application> raises
\* the structure error and leaves the file as it was; main then fails, and
\* no state of a run whose manifest lacks <application> has Substituting,
\* Recompiling, Signing or Finalizing started.
C7_NoApplicationStops ==
    /\ (Ran("PatchingManifest") /\ pre.manifest # NoManifest
            /\ ~pre.manifest.hasApp)
        => /\ last.result = "RuntimeError"
           /\ manifest = pre.manifest
           /\ pc = "Failed"
    /\ (manifest # NoManifest /\ ~manifest.hasApp)
        => \A s \in LaterStages : ~Started(s)

\* a run stopped by a manifest without <application>
C7_Witness ==
    /\ Ran("PatchingManifest")
    /\ last.result = "RuntimeError"
    /\ ~manifest.hasApp
    /\ pc = "Failed"
    /\ Len(log) = 5

\* C8: finalize_apk renames the signed artifact to the output name when the
\* artifact exists; when it is absent it fails with the missing-artifact
\* error and the output name holds what it held before.
C8_FinalizeNeedsArtifact ==
    Ran("Finalizing") =>
        IF pre.signedApk # Absent
        THEN /\ last.result = "ok"
             /\ finalApk = pre.signedApk
             /\ signedApk = Absent
        ELSE /\ last.result = "FileNotFoundError"
             /\ finalApk = pre.finalApk
             /\ signedApk = Absent
             /\ pc = "Failed"

\* Finalizing found no signed artifact and left an older output file alone
C8_Witness ==
    /\ Ran("Finalizing")
    /\ pre.signedApk = Absent
    /\ last.result = "FileNotFoundError"
    /\ finalApk = "stale"

\* C9: after a successful merge of an existing split/lib, every file of the
\* source is in the destination with the source's content, the files only
\* the destination had keep their content, and the source is unchanged.
C9_MergeSourceWins ==
    (RanOk("Merging") /\ pre.splitLib.exists)
        => /\ \A p \in LibFiles :
                 baseLib.files[p] =
                    IF pre.splitLib.files[p] # Absent
                    THEN pre.splitLib.files[p]
                    ELSE pre.baseLib.files[p]
           /\ baseLib.exists
           /\ pre.splitLib.arch => baseLib.arch
           /\ splitLib = pre.splitLib

\* a merge overwrote x.so and kept the destination's own libmain.so
C9_Witness ==
    /\ RanOk("Merging")
    /\ pre.baseLib.files["x.so"] = OrigContent
    /\ pre.splitLib.files["x.so"] = SplitContent
    /\ baseLib.files["x.so"] = SplitContent
    /\ pre.splitLib.files["libmain.so"] = Absent
    /\ baseLib.files["libmain.so"] = OrigContent

\* C10: merge_apks with no split/lib does not fail and leaves base/lib as
\* it was, not created if it did not exist; main goes on to the next step.
C10_MergeMissingSourceNoOp ==
    (Ran("Merging") /\ ~pre.splitLib.exists)
        => /\ last.result = "ok"
           /\ baseLib = pre.baseLib
           /\ splitLib = pre.splitLib
           /\ pc = "CreatingProviderPaths"

\* main merged nothing into a base without lib and went on
C10_Witness ==
    /\ RanOk("Merging")
    /\ ~pre.splitLib.exists
    /\ ~baseLib.exists
    /\ pc = "CreatingProviderPaths"

\* the file has a <provider> child of <application> whose android:name,
\* with the prefix bound to the platform namespace, is the FileProvider name
DeclaresFileProvider(file) ==
    /\ file # NoManifest
    /\ WellFormed(file)
    /\ file.hasApp
    /\ file.xmlns
    /\ \E i \in DOMAIN file.kids :
          /\ file.kids[i].tag = "provider"
          /\ GetAttr(file.kids[i], "prefix", "name") = ProviderName

\* C11: when <application> already has the FileProvider <provider> child,
\* add_provider_to_manifest returns normally, appends no element to the
\* document and leaves the bytes of the manifest file as they were.
C11_ExistingProviderNoMutation ==
    (Ran("PatchingManifest") /\ DeclaresFileProvider(pre.manifest))
        => /\ last.result = "ok"
           /\ manifest = pre.manifest
           /\ Len(doc.kids) = Len(pre.manifest.kids)
           /\ CountFileProviders(doc.kids) = 1

\* the patcher ran on a manifest from apktool that already declared the
\* provider and left the file, XML declaration included, untouched
C11_Witness ==
    /\ RanOk("PatchingManifest")
    /\ DeclaresFileProvider(pre.manifest)
    /\ pre.manifest.decl = "apktool"
    /\ manifest = pre.manifest
    /\ manifest.decl = "apktool"

Succeeded(s) ==
    \E i \in DOMAIN log : log[i].stage = s /\ log[i].result = "ok"

\* the stages of main that write nothing under base/ or split/
TreeReadingStages == {"Fetching", "Recompiling", "Signing", "Finalizing"}

\* C12: in the terminal Failed state the failing stage is the last thing
\* that ran, and what the earlier stages did to the trees is still there:
\* provider_paths.xml, the provider in the manifest, the merged libraries
\* and the backup of the merged libmain.so; a stage that only reads the
\* trees leaves them, on failure, exactly as it found them.
C12_NoRollbackOnFailure ==
    pc = "Failed" =>
        /\ last.op = log[Len(log)].stage
        /\ last.result = log[Len(log)].result
        /\ last.result # "ok"
        /\ Succeeded("CreatingProviderPaths")
              => providerPaths = ProviderPathsContent
        /\ Succeeded("PatchingManifest")
              => CountFileProviders(manifest.kids) = 1
        /\ Succeeded("Merging")
              => \A p \in Present(splitLib) :
                    IF p = "libmain.so" /\ Started("Substituting")
                    THEN baseLib.files["libmain_orig.so"] = splitLib.files[p]
                    ELSE baseLib.files[p] = splitLib.files[p]
        /\ Succeeded("Substituting")
              => baseLib.files["libmain.so"] = ReplContent
        /\ last.op \in TreeReadingStages
              => /\ manifest = pre.manifest
                 /\ providerPaths = pre.providerPaths
                 /\ baseLib = pre.baseLib
                 /\ splitLib = pre.splitLib

\* apktool b failed after the merge, the patch and the substitution, and
\* all of their changes are still on disk
C12_Witness ==
    /\ pc = "Failed"
    /\ Ran("Recompiling")
    /\ providerPaths = ProviderPathsContent
    /\ manifest.decl = "etree"
    /\ CountFileProviders(manifest.kids) = 1
    /\ baseLib.files["x.so"] = SplitContent
    /\ baseLib.files["libmain_orig.so"] = SplitContent
    /\ baseLib.files["libmain.so"] = ReplContent

\* tree.write is the only writer of an "etree" XML declaration, so a
\* manifest that carries one had the provider inserted by this run
InsertedByThisRun == manifest.decl = "etree"

\* C13: whenever this run has inserted the provider into the manifest, and
\* whenever Recompiling is about to start, res/xml/provider_paths.xml holds
\* its fixed content; add_provider_to_manifest never runs before
\* create_provider_paths has succeeded.
C13_ResourceBeforeProvider ==
    /\ InsertedByThisRun => providerPaths = ProviderPathsContent
    /\ pc = "Recompiling" => providerPaths = ProviderPathsContent
    /\ \A i \in DOMAIN log :
          log[i].stage = "PatchingManifest"
             => \E j \in 1..(i - 1) :
                   log[j] = [stage |-> "CreatingProviderPaths",
                             result |-> "ok"]

\* Recompiling is about to start on a manifest this run patched, with the
\* resource file in place
C13_Witness ==
    /\ pc = "Recompiling"
    /\ InsertedByThisRun
    /\ Succeeded("PatchingManifest")
    /\ providerPaths = ProviderPathsContent

\* C14: the signer runs only with a keystore file present and after a
\* successful recompile; with the keystore absent the Signing step fails
\* with the keystore-missing error, the signer is not run and Finalizing is
\* never started.
C14_NoSignerWithoutKeystore ==
    /\ signerRuns > 0 => (keystore # Absent /\ Succeeded("Recompiling"))
    /\ \A i \in DOMAIN log :
          log[i].stage = "Signing"
             => \E j \in 1..(i - 1) :
                   log[j] = [stage |-> "Recompiling", result |-> "ok"]
    /\ (Ran("Signing") /\ keystore = Absent)
          => /\ last.result = "FileNotFoundError"
             /\ signedApk = pre.signedApk
             /\ pc = "Failed"
             /\ exitStatus = 1
    /\ keystore = Absent => ~Started("Finalizing")

\* the recompile succeeded, the keystore was missing, and the run failed
\* without the signer having been executed
C14_Witness ==
    /\ Ran("Signing")
    /\ keystore = Absent
    /\ last.result = "FileNotFoundError"
    /\ Succeeded("Recompiling")
    /\ signerRuns = 0
    /\ pc = "Failed"

====
